---- MODULE Spec2Model ----
(***************************************************************************)
(* A model of jmp_bridge.py: the sliding-window RateLimiter, the inbound   *)
(* pipeline (on_message, fire_hook), the outbox drain loop (watch_outbox), *)
(* and the connection supervisor (on_session, on_disconnect,               *)
(* reconnect_delayed, stop).                                               *)
(*                                                                         *)
(* Time is time.time() in whole seconds.  The protocol library (slixmpp),  *)
(* the filesystem and the external producer of outbox files are the        *)
(* environment: their events and their failures are nondeterministic.      *)
(***************************************************************************)
EXTENDS Integers, Sequences, FiniteSets, TLC

(***************************************************************************)
(* Bounds of the model.                                                    *)
(***************************************************************************)
\* largest value a configured rate limit takes
MaxLimit == 2
\* the clock advances at most this many times in a run of the RateLimiter
MaxTicks == 2
\* the clock advances at most this many times in a run of the bridge
MaxBridgeTicks == 1
\* at most this many reconnect_delayed tasks are pending at once
MaxTimers == 2
\* at most this many watch_outbox tasks are alive at once
MaxTasks == 2
\* at most this many filesystem mutations (unlink, rename) throw in a run
MaxFaults == 1
\* at most this many message events are delivered in a run
MaxMsgs == 2

(***************************************************************************)
(* Program constants.                                                      *)
(***************************************************************************)
\* _trim_window(q, 60, now)
MinuteWindow == 60
\* _trim_window(self.events_day, 86400, now)
DayWindow == 86400
\* await asyncio.sleep(5) in reconnect_delayed
ReconnectDelay == 5
\* await asyncio.sleep(2) in watch_outbox
ScanInterval == 2
\* MAX_SMS_LEN, as in the scenario of the specification (the default is 1000)
MAX_SMS_LEN == 5

\* the gateway domain of f"{to_phone}@cheogram.com"
GatewayDomain == "cheogram.com"

\* f"out::{sender_key}"
OutKey(sender_key) == "out::" \o sender_key

\* sender keys allow_inbound is called with; the second one is the string
\* that allow_outbound() derives from its default key
Senders == {"+1555", "out::global"}

Min(a, b) == IF a <= b THEN a ELSE b

Max(a, b) == IF a >= b THEN a ELSE b

(***************************************************************************)
(* Text.  An address is a sequence of tokens, cut where the code looks:    *)
(* at "/", at "@cheogram.com" and at "+".  A body is a sequence of         *)
(* characters.                                                             *)
(***************************************************************************)
\* the string the tokens spell
RECURSIVE Join(_)
Join(tokens) ==
    IF tokens = <<>> THEN "" ELSE Head(tokens) \o Join(Tail(tokens))

\* s.split("/")[0]
RECURSIVE BeforeSlash(_)
BeforeSlash(tokens) ==
    IF tokens = <<>> \/ Head(tokens) = "/" THEN <<>>
    ELSE <<Head(tokens)>> \o BeforeSlash(Tail(tokens))

\* s.replace(old, "")
Without(tokens, old) == SelectSeq(tokens, LAMBDA x : x # old)

\* body.startswith(prefix)
StartsWith(body, prefix) ==
    /\ Len(body) >= Len(prefix)
    /\ SubSeq(body, 1, Len(prefix)) = prefix

\* A mutant of Truncate: the body is cut one character too late.
Truncate_one_more(body, n) == SubSeq(body, 1, Min(n + 1, Len(body)))

\* body[:n], also for a negative n
Truncate(body, n) ==
    IF n >= 0 THEN SubSeq(body, 1, Min(n, Len(body)))
    ELSE SubSeq(body, 1, Max(Len(body) + n, 0))

\* frm = str(msg["from"]).split("/")[0]
BareJid(from) == BeforeSlash(from)

\* phone = frm.replace("@cheogram.com", ""), as tokens
PhoneTokens(from) == Without(BareJid(from), "@cheogram.com")

\* phone
Phone(from) == Join(PhoneTokens(from))

\* phone.replace('+', '')
Sanitized(from) == Join(Without(PhoneTokens(from), "+"))

\* f"{ts}-{phone.replace('+', '')}.json"
InboxName(ts, from) == ToString(ts) \o "-" \o Sanitized(from) \o ".json"

(***************************************************************************)
(* The messages the protocol library delivers.                             *)
(***************************************************************************)
\* a body with the prefix "!", longer than MAX_SMS_LEN
Cmd == <<"!", "h", "e", "l", "l", "o", "w">>
\* a body without the prefix
Hi == <<"h", "i">>

\* a gateway sender with a resource, the same number without its "+", the
\* sender whose address is the key allow_outbound() uses, the server that
\* sends the welcome, and the gateway itself
From1555 == <<"+", "1555", "@cheogram.com", "/", "sms">>
FromBare1555 == <<"1555", "@cheogram.com">>
FromOutGlobal == <<"out::global", "@cheogram.com">>
FromWelcome == <<"jabber.fr">>
FromAdmin == <<"cheogram.com", "/", "gw">>

Msgs ==
    {[from |-> From1555, body |-> Cmd],
     [from |-> From1555, body |-> <<>>],
     [from |-> FromBare1555, body |-> Hi],
     [from |-> FromOutGlobal, body |-> Cmd],
     [from |-> FromWelcome, body |-> Cmd],
     [from |-> FromAdmin, body |-> Cmd]}

\* the values of the configuration: JMP_ALLOWED_SENDERS,
\* JMP_REQUIRE_COMMAND_PREFIX, JMP_HOOK_URL
AllowLists == {{}, {"+1555"}}
Prefixes == {<<>>, <<"!">>}
HookUrls == {"", "http://127.0.0.1:18789/hooks/sms"}

\* the keys of the events_minute dictionary: the senders, the phones of the
\* messages, and the key of allow_outbound()
Keys == Senders \cup {Phone(m.from) : m \in Msgs} \cup {OutKey("global")}

VARIABLES
    now,                     \* time.time()
    ticks,                   \* how many times the clock has advanced
    INBOUND_LIMIT_PER_MIN,
    OUTBOUND_LIMIT_PER_MIN,
    OUTBOUND_LIMIT_PER_DAY,
    events_minute,           \* RL.events_minute: key -> deque of timestamps
    events_day,              \* RL.events_day: deque of timestamps
    ret,                     \* history: the last RateLimiter call
    burst,                   \* history: per key, the allow_inbound calls
                             \* made since the key's window was last empty
    running,                 \* JMPBridge.running
    conn,                    \* the protocol session: disconnected,
                             \* connecting or connected
    timers,                  \* the pending reconnect_delayed tasks: the
                             \* seconds each has left to sleep
    tasks,                   \* the live watch_outbox tasks: the seconds
                             \* each has left to sleep
    connectFlip,             \* history: flips at every self.connect()
    discFlip,                \* history: flips at every disconnected event
    suffix,                  \* the outbox directory: file -> its suffix
    data,                    \* file -> what its producer wrote
    sends,                   \* history: the send_message calls
    hist,                    \* history: file -> what happened to it
    deferred,                \* history: the files the last scan deferred
    faults,                  \* how many filesystem mutations have thrown
    ALLOWED_SENDERS,         \* the allow-list, a set of sender strings
    REQUIRE_PREFIX,          \* the required prefix, a sequence of characters
    HOOK_URL,                \* the webhook URL, "" when none is configured
    inbox,                   \* the inbox directory: file name -> record
    written,                 \* history: the file name and the record of
                             \* every message that on_message persisted
    executor,                \* the fire_hook jobs handed to the executor that
                             \* have not run yet (indices into written)
    posted,                  \* history: the webhook POSTs made, with outcome
    received,                \* how many message events have been delivered
    last                     \* history: what on_message did with the last
                             \* message

rlVars == <<INBOUND_LIMIT_PER_MIN, OUTBOUND_LIMIT_PER_MIN,
            OUTBOUND_LIMIT_PER_DAY, events_minute, events_day, ret, burst>>

connVars == <<running, conn, connectFlip, discFlip>>

boxVars == <<suffix, data, sends, hist, deferred, faults>>

filterVars == <<ALLOWED_SENDERS, REQUIRE_PREFIX, HOOK_URL>>

inVars == <<filterVars, inbox, written, executor, posted, received, last>>

vars == <<now, ticks, rlVars, connVars, timers, tasks, boxVars, inVars>>

(***************************************************************************)
(* RateLimiter                                                             *)
(***************************************************************************)
\* A mutant of _trim_window: nothing is ever dropped from a window.
_trim_window_keeps_all(q, window_seconds, t) == q

\* while q and now - q[0] > window_seconds: q.popleft()
RECURSIVE _trim_window(_, _, _)
_trim_window(q, window_seconds, t) ==
    IF q # <<>> /\ t - Head(q) > window_seconds
    THEN _trim_window(Tail(q), window_seconds, t)
    ELSE q

\* A mutant of allow_inbound: the denied attempt is recorded too.
allow_inbound_records_denied(em, sender, t, limit) ==
    LET q == _trim_window(em[sender], MinuteWindow, t)
    IN  [ok |-> Len(q) < limit,
         em |-> [em EXCEPT ![sender] = Append(q, t)]]

\* allow_inbound(sender) at time t on the dictionary em: the returned value
\* and the dictionary afterwards.
allow_inbound(em, sender, t, limit) ==
    LET q == _trim_window(em[sender], MinuteWindow, t)
    IN  IF Len(q) >= limit
        THEN [ok |-> FALSE, em |-> [em EXCEPT ![sender] = q]]
        ELSE [ok |-> TRUE,  em |-> [em EXCEPT ![sender] = Append(q, t)]]

\* A mutant of allow_outbound: the minute window is appended to as soon as
\* the minute check passes, before the daily check.
allow_outbound_appends_early(em, ed, sender_key, t, perMin, perDay) ==
    LET k == OutKey(sender_key)
        per_min_q == _trim_window(em[k], MinuteWindow, t)
        day == _trim_window(ed, DayWindow, t)
    IN  IF Len(per_min_q) >= perMin
        THEN [ok |-> FALSE, em |-> [em EXCEPT ![k] = per_min_q], ed |-> ed]
        ELSE IF Len(day) >= perDay
        THEN [ok |-> FALSE, em |-> [em EXCEPT ![k] = Append(per_min_q, t)],
              ed |-> day]
        ELSE [ok |-> TRUE, em |-> [em EXCEPT ![k] = Append(per_min_q, t)],
              ed |-> Append(day, t)]

\* A mutant of allow_outbound: every call is granted.
allow_outbound_unlimited(em, ed, sender_key, t, perMin, perDay) ==
    LET k == OutKey(sender_key)
        per_min_q == _trim_window(em[k], MinuteWindow, t)
        day == _trim_window(ed, DayWindow, t)
    IN  [ok |-> TRUE, em |-> [em EXCEPT ![k] = Append(per_min_q, t)],
         ed |-> Append(day, t)]

\* allow_outbound(sender_key) at time t: the returned value, the dictionary
\* and the daily deque afterwards.  A minute denial returns before the daily
\* deque is trimmed.
allow_outbound(em, ed, sender_key, t, perMin, perDay) ==
    LET k == OutKey(sender_key)
        per_min_q == _trim_window(em[k], MinuteWindow, t)
        day == _trim_window(ed, DayWindow, t)
    IN  IF Len(per_min_q) >= perMin
        THEN [ok |-> FALSE, em |-> [em EXCEPT ![k] = per_min_q], ed |-> ed]
        ELSE IF Len(day) >= perDay
        THEN [ok |-> FALSE, em |-> [em EXCEPT ![k] = per_min_q], ed |-> day]
        ELSE [ok |-> TRUE, em |-> [em EXCEPT ![k] = Append(per_min_q, t)],
              ed |-> Append(day, t)]

(***************************************************************************)
(* History of the RateLimiter calls.                                       *)
(***************************************************************************)
NoCall == [op |-> "none", key |-> "", ok |-> FALSE]

\* no burst of allow_inbound calls is being followed for a key
NoBurst == [t0 |-> 0, calls |-> 0]

\* the record of one call on the deque of key k
CallRecord(op, k, ok) == [op |-> op, key |-> k, ok |-> ok]

\* every timestamp of q is more than a minute before t (also: q is empty)
Expired(q, t) == \A i \in 1..Len(q) : t - q[i] > MinuteWindow

\* burst after allow_inbound(sender) at t on em.  A call that finds the window
\* empty, or holding only timestamps older than a minute, starts a burst at
\* t; a later call within a minute of the start is counted (the count
\* saturates at limit + 1); any other call ends the burst.
BurstAfterInbound(b, em, sender, t, limit) ==
    IF Expired(em[sender], t)
    THEN [b EXCEPT ![sender] = [t0 |-> t, calls |-> 1]]
    ELSE IF b[sender].calls > 0 /\ t - b[sender].t0 <= MinuteWindow
    THEN [b EXCEPT ![sender].calls = Min(@ + 1, limit + 1)]
    ELSE [b EXCEPT ![sender] = NoBurst]

\* burst after allow_outbound(sender_key): a granted call writes the deque of
\* its key, whose burst of allow_inbound calls is thereby interrupted
BurstAfterOutbound(b, sender_key, ok) ==
    IF ok THEN [b EXCEPT ![OutKey(sender_key)] = NoBurst] ELSE b

(***************************************************************************)
(* Initial state: the module has been loaded (the limits read from the     *)
(* environment, RL = RateLimiter()).                                       *)
(***************************************************************************)
InitLimiter ==
    /\ now = 0
    /\ ticks = 0
    /\ INBOUND_LIMIT_PER_MIN \in 0..MaxLimit
    /\ OUTBOUND_LIMIT_PER_MIN \in 0..MaxLimit
    /\ OUTBOUND_LIMIT_PER_DAY \in 0..MaxLimit
    /\ events_minute = [k \in Keys |-> <<>>]
    /\ events_day = <<>>
    /\ ret = NoCall
    /\ burst = [k \in Keys |-> NoBurst]

limitVars == <<INBOUND_LIMIT_PER_MIN, OUTBOUND_LIMIT_PER_MIN,
               OUTBOUND_LIMIT_PER_DAY>>

\* the clock advances by d seconds, for at most the bound-th time: every
\* sleeping task has d seconds less to sleep
Tick(d, bound) ==
    /\ ticks < bound
    /\ ticks' = ticks + 1
    /\ now' = now + d
    /\ timers' = [i \in 1..Len(timers) |-> Max(timers[i] - d, 0)]
    /\ tasks' = [i \in 1..Len(tasks) |-> Max(tasks[i] - d, 0)]
    /\ UNCHANGED <<rlVars, connVars, boxVars, inVars>>

\* a call RL.allow_inbound(sender)
AllowInboundCall(sender) ==
    LET r == allow_inbound(events_minute, sender, now, INBOUND_LIMIT_PER_MIN)
    IN  /\ events_minute' = r.em
        /\ ret' = CallRecord("in", sender, r.ok)
        /\ burst' = BurstAfterInbound(burst, events_minute, sender, now,
                                       INBOUND_LIMIT_PER_MIN)
        /\ UNCHANGED <<now, ticks, limitVars, events_day>>
        /\ UNCHANGED <<connVars, timers, tasks, boxVars, inVars>>

\* a call RL.allow_outbound()
AllowOutboundCall ==
    LET r == allow_outbound(events_minute, events_day, "global", now,
                            OUTBOUND_LIMIT_PER_MIN, OUTBOUND_LIMIT_PER_DAY)
    IN  /\ events_minute' = r.em
        /\ events_day' = r.ed
        /\ ret' = CallRecord("out", OutKey("global"), r.ok)
        /\ burst' = BurstAfterOutbound(burst, "global", r.ok)
        /\ UNCHANGED <<now, ticks, limitVars>>
        /\ UNCHANGED <<connVars, timers, tasks, boxVars, inVars>>

(***************************************************************************)
(* The outbox directory.                                                   *)
(***************************************************************************)
\* the names of the outbox files, in sorted() order
FileOrder == <<"a", "b">>

Files == {FileOrder[i] : i \in 1..Len(FileOrder)}

\* what a producer writes into a file: text that is not JSON, JSON without
\* the "body" field, and a well-formed record (a body is a sequence of
\* characters; this one is longer than MAX_SMS_LEN)
InvalidJson == [json |-> FALSE]
NoBody == [json |-> TRUE, to |-> "+1555"]
Hello == [json |-> TRUE, to |-> "+1555",
          body |-> <<"h", "e", "l", "l", "o", " ", "w">>]

\* what the producer of each file may write into it
Contents(f) == IF f = "a" THEN {InvalidJson, Hello} ELSE {NoBody, Hello}

\* the file has not been written
NoData == [json |-> FALSE, absent |-> TRUE]

\* json.load(fh), data["to"], data["body"] raise nothing
Parses(c) == c.json /\ "to" \in DOMAIN c /\ "body" \in DOMAIN c

\* f"{to_phone}@cheogram.com"
GatewayJid(to_phone) == to_phone \o "@" \o GatewayDomain

\* sorted(OUTBOX_DIR.iterdir()): the files of the directory, in order
Listing(sfx) == SelectSeq(FileOrder, LAMBDA f : sfx[f] # "none")

\* what the drain loop reads and writes during a scan
ScanState ==
    [em |-> events_minute, ed |-> events_day, ret |-> ret, burst |-> burst,
     suffix |-> suffix, sends |-> sends, hist |-> hist, deferred |-> {},
     faults |-> faults]

\* history: label happened to file f
Note(st, f, label) == [st EXCEPT !.hist[f] = @ \cup {label}]

\* A mutant of MarkSent: the sent file is left in the directory.
MarkSent_keeps_file(st, f) == st

\* f.unlink() succeeded
MarkSent(st, f) == [st EXCEPT !.suffix[f] = "none"]

\* A mutant of SkipsFile: every file of the directory is read.
SkipsFile_never(sfx) == FALSE

\* if f.suffix != ".json": continue
SkipsFile(sfx) == sfx # ".json"

\* A mutant of Defer: a file the rate limiter denies is marked failed.
Defer_marks_failed(st, f) ==
    [Note(st, f, "deferred") EXCEPT !.deferred = @ \cup {f},
                                    !.suffix[f] = ".failed"]

\* log("[DEFER] ..."); continue
Defer(st, f) == [Note(st, f, "deferred") EXCEPT !.deferred = @ \cup {f}]

\* the handler "except Exception as e" of the per-file try: f.rename(...)
\* succeeds, or throws and the file stays as it is
OnException(st, f, ch) ==
    IF ch.rename_ok
    THEN [Note(st, f, "marked_failed") EXCEPT !.suffix[f] = ".failed"]
    ELSE [Note(st, f, "rename_raised") EXCEPT !.faults = @ + 1]

\* the body of the for loop of watch_outbox for file f; ch says which of the
\* calls into the environment succeed
DrainFile(st0, f, ch) ==
    IF SkipsFile(st0.suffix[f]) THEN st0
    ELSE LET st == IF "marked_failed" \in st0.hist[f]
                   THEN Note(st0, f, "read_after_failed") ELSE st0 IN
    IF ~Parses(data[f])
    THEN OnException(Note(st, f, "parse_error"), f, ch)
    ELSE
      LET to_phone == data[f].to
          body == Truncate(data[f].body, MAX_SMS_LEN)
          r == allow_outbound(st.em, st.ed, "global", now,
                              OUTBOUND_LIMIT_PER_MIN, OUTBOUND_LIMIT_PER_DAY)
          st1 == [st EXCEPT !.em = r.em, !.ed = r.ed,
                            !.ret = CallRecord("out", OutKey("global"), r.ok),
                            !.burst = BurstAfterOutbound(@, "global", r.ok)]
          st2 == [st1 EXCEPT !.sends = Append(@,
                     [file |-> f, mto |-> GatewayJid(to_phone),
                      mbody |-> body, at |-> now, raised |-> ~ch.send_ok])]
      IN  IF ~r.ok THEN Defer(st1, f)
          ELSE IF ~ch.send_ok
          THEN OnException(Note(st2, f, "send_raised"), f, ch)
          ELSE IF ch.unlink_ok
          THEN MarkSent(Note(st2, f, "send_ok"), f)
          ELSE OnException(
                 [Note(Note(st2, f, "send_ok"), f, "unlink_raised")
                    EXCEPT !.faults = @ + 1], f, ch)

\* the for loop over the listing fs
RECURSIVE DrainFiles(_, _, _)
DrainFiles(st, fs, ch) ==
    IF fs = <<>> THEN st
    ELSE DrainFiles(DrainFile(st, Head(fs), ch[Head(fs)]), Tail(fs), ch)

\* what the environment does to one file of a scan: send_message raises or
\* not, f.unlink() throws or not, f.rename() throws or not (unlink is only
\* reached when the send succeeded)
AllOk == [send_ok |-> TRUE, unlink_ok |-> TRUE, rename_ok |-> TRUE]

Outcomes ==
    {o \in [send_ok : BOOLEAN, unlink_ok : BOOLEAN, rename_ok : BOOLEAN] :
        ~o.send_ok => o.unlink_ok}

\* the outcomes of one scan: only a pending file meets the environment, and
\* at most budget filesystem mutations throw
ScanOutcomes(sfx, budget) ==
    {ch \in [Files -> Outcomes] :
        /\ \A f \in Files : sfx[f] # ".json" => ch[f] = AllOk
        /\ Cardinality({f \in Files : ~ch[f].unlink_ok})
             + Cardinality({f \in Files : ~ch[f].rename_ok}) <= budget}

\* seq without its i-th element
Remove(seq, i) == [j \in 1..(Len(seq) - 1) |-> IF j < i THEN seq[j] ELSE seq[j + 1]]

(***************************************************************************)
(* The inbound pipeline: on_message and fire_hook.                         *)
(***************************************************************************)
\* what on_message did with the last message; "none" before the first
NoMessage == "none"

\* ALLOWED_SENDERS and phone not in ALLOWED_SENDERS
Untrusted(phone) == ALLOWED_SENDERS # {} /\ phone \notin ALLOWED_SENDERS

\* REQUIRE_PREFIX and not body.startswith(REQUIRE_PREFIX)
MissingPrefix(body) ==
    REQUIRE_PREFIX # <<>> /\ ~StartsWith(body, REQUIRE_PREFIX)

\* msg_data = {"from": phone, "body": body, "timestamp": ts, "jid": frm}
MsgData(msg, ts) ==
    [from |-> Phone(msg.from), body |-> Truncate(msg.body, MAX_SMS_LEN),
     timestamp |-> ts, jid |-> Join(BareJid(msg.from))]

\* A mutant of DropEarly: the message is counted before it is dropped.
DropEarly_counted(msg, why) ==
    /\ last' = why
    /\ events_minute' = [events_minute EXCEPT
                           ![Phone(msg.from)] = Append(@, now)]
    /\ UNCHANGED <<ret, burst, inbox, written, executor>>

\* on_message returns before it reaches the rate limiter
DropEarly(msg, why) ==
    /\ last' = why
    /\ UNCHANGED <<events_minute, ret, burst, inbox, written, executor>>

\* on_message returns, or raises, after RL.allow_inbound(phone)
DropLate(msg, why) ==
    /\ last' = why
    /\ UNCHANGED <<inbox, written, executor>>

\* A mutant of Persist: the hook job is handed to the executor twice.
Persist_hooks_twice(msg) ==
    LET name == InboxName(now, msg.from)
        rec == MsgData(msg, now)
    IN  /\ inbox' = (name :> rec) @@ inbox
        /\ written' = Append(written, [name |-> name, rec |-> rec, msg |-> msg])
        /\ executor' = executor \o <<Len(written) + 1, Len(written) + 1>>
        /\ last' = "persisted"

\* open(inbox_path, "w"), json.dump, and run_in_executor(None, fire_hook, ...)
Persist(msg) ==
    LET name == InboxName(now, msg.from)
        rec == MsgData(msg, now)
    IN  /\ inbox' = (name :> rec) @@ inbox
        /\ written' = Append(written, [name |-> name, rec |-> rec, msg |-> msg])
        /\ executor' = Append(executor, Len(written) + 1)
        /\ last' = "persisted"

\* A mutant of Sifted: no message is dropped before the rate limiter.
Sifted_nothing(msg) == "pass"

\* the filters of on_message ahead of the rate limiter: why the message is
\* dropped, or "pass"
Sifted(msg) ==
    IF msg.body = <<>> THEN "empty"
    ELSE IF Join(BareJid(msg.from)) = "jabber.fr" THEN "welcome"
    ELSE IF Join(BareJid(msg.from)) = "cheogram.com" THEN "admin"
    ELSE IF Untrusted(Phone(msg.from)) THEN "untrusted"
    ELSE "pass"

\* the message event: on_message(msg).  The write of the inbox file succeeds
\* or raises (write_ok).
on_message(msg) ==
    /\ received < MaxMsgs
    /\ received' = received + 1
    /\ IF Sifted(msg) # "pass" THEN DropEarly(msg, Sifted(msg))
       ELSE
         LET phone == Phone(msg.from)
             r == allow_inbound(events_minute, phone, now, INBOUND_LIMIT_PER_MIN)
         IN  /\ events_minute' = r.em
             /\ ret' = CallRecord("in", phone, r.ok)
             /\ burst' = BurstAfterInbound(burst, events_minute, phone, now,
                                            INBOUND_LIMIT_PER_MIN)
             /\ IF ~r.ok THEN DropLate(msg, "rate")
                ELSE IF MissingPrefix(msg.body) THEN DropLate(msg, "prefix")
                ELSE \E write_ok \in BOOLEAN :
                       IF write_ok THEN Persist(msg)
                       ELSE DropLate(msg, "write_raised")
    /\ UNCHANGED <<now, ticks, limitVars, events_day, connVars, timers, tasks,
                   boxVars, filterVars, posted>>

\* what urlopen does: it answers, raises URLError, or times out
HookOutcomes == {"status", "URLError", "timeout"}

\* the executor runs job i: fire_hook(phone, body, timestamp).  Without a
\* HOOK_URL it returns at once; with one it POSTs and logs the outcome.
fire_hook(i, outcome) ==
    /\ executor' = Remove(executor, i)
    /\ posted' = IF HOOK_URL = "" THEN posted
                 ELSE Append(posted, [job |-> executor[i], outcome |-> outcome])
    /\ UNCHANGED <<now, ticks, rlVars, connVars, timers, tasks, boxVars,
                   filterVars, inbox, written, received, last>>

\* the defaults of the configuration: no allow-list, no prefix, no webhook
DefaultFilters ==
    /\ ALLOWED_SENDERS = {}
    /\ REQUIRE_PREFIX = <<>>
    /\ HOOK_URL = ""

(***************************************************************************)
(* Initial state of the bridge: JMPBridge() has been constructed and       *)
(* main() has called bot.connect(); the outbox and the inbox are empty.    *)
(***************************************************************************)
InitBridge ==
    /\ running = TRUE
    /\ conn = "connecting"
    /\ timers = <<>>
    /\ tasks = <<>>
    /\ connectFlip = FALSE
    /\ discFlip = FALSE
    /\ suffix = [f \in Files |-> "none"]
    /\ data = [f \in Files |-> NoData]
    /\ sends = <<>>
    /\ hist = [f \in Files |-> {}]
    /\ deferred = {}
    /\ faults = 0
    /\ inbox = <<>>
    /\ written = <<>>
    /\ executor = <<>>
    /\ posted = <<>>
    /\ received = 0
    /\ last = NoMessage

\* an external producer drops <f>.json holding c into the outbox
Produce(f, c) ==
    /\ data[f] = NoData
    /\ data' = [data EXCEPT ![f] = c]
    /\ suffix' = [suffix EXCEPT ![f] = ".json"]
    /\ UNCHANGED <<now, ticks, rlVars, connVars, timers, tasks,
                   sends, hist, deferred, faults, inVars>>

\* the session_start event: on_session starts a watch_outbox task
SessionStart ==
    /\ conn \in {"connecting", "connected"}
    /\ Len(tasks) < MaxTasks
    /\ conn' = "connected"
    /\ tasks' = Append(tasks, 0)
    /\ UNCHANGED <<now, ticks, rlVars, running, connectFlip, discFlip,
                   timers, boxVars, inVars>>

\* A mutant of DrainStep: the loop scans without testing self.running.
DrainStep_ignores_running(i) ==
    /\ tasks[i] = 0
    /\ tasks' = [tasks EXCEPT ![i] = ScanInterval]
    /\ LET st == DrainFiles(ScanState, Listing(suffix), [f \in Files |-> AllOk])
       IN  /\ events_minute' = st.em
           /\ events_day' = st.ed
           /\ ret' = st.ret
           /\ burst' = st.burst
           /\ suffix' = st.suffix
           /\ sends' = st.sends
           /\ hist' = st.hist
           /\ deferred' = st.deferred
           /\ faults' = st.faults
           /\ UNCHANGED <<limitVars, data>>
    /\ UNCHANGED <<now, ticks, connVars, timers, inVars>>

\* one turn of the while loop of watch_outbox task i, from the test of
\* self.running to the next sleep: the whole scan runs without an await.
\* When OUTBOX_DIR.iterdir() throws (list_ok is false) the scan does nothing.
DrainStep(i) ==
    /\ tasks[i] = 0
    /\ IF ~running
       THEN /\ tasks' = Remove(tasks, i)
            /\ UNCHANGED <<rlVars, boxVars>>
       ELSE /\ tasks' = [tasks EXCEPT ![i] = ScanInterval]
            /\ \E list_ok \in BOOLEAN :
               \E ch \in IF list_ok THEN ScanOutcomes(suffix, MaxFaults - faults)
                                    ELSE {[f \in Files |-> AllOk]} :
                 LET st == IF list_ok
                           THEN DrainFiles(ScanState, Listing(suffix), ch)
                           ELSE ScanState
                 IN  /\ st.faults <= MaxFaults
                     /\ events_minute' = st.em
                     /\ events_day' = st.ed
                     /\ ret' = st.ret
                     /\ burst' = st.burst
                     /\ suffix' = st.suffix
                     /\ sends' = st.sends
                     /\ hist' = st.hist
                     /\ deferred' = st.deferred
                     /\ faults' = st.faults
                     /\ UNCHANGED <<limitVars, data>>
    /\ UNCHANGED <<now, ticks, connVars, timers, inVars>>

\* self.connect()
Connect ==
    /\ conn' = "connecting"
    /\ connectFlip' = ~connectFlip

\* the disconnected event: on_disconnect
Disconnected ==
    /\ conn' = "disconnected"
    /\ discFlip' = ~discFlip
    /\ IF running
       THEN /\ Len(timers) < MaxTimers
            /\ timers' = Append(timers, ReconnectDelay)
       ELSE timers' = timers
    /\ UNCHANGED <<now, ticks, rlVars, running, connectFlip, tasks, boxVars,
                   inVars>>

\* A mutant of reconnect_delayed: it reconnects without testing running.
reconnect_delayed_unguarded(i) ==
    /\ timers[i] = 0
    /\ timers' = Remove(timers, i)
    /\ Connect
    /\ UNCHANGED <<now, ticks, rlVars, running, discFlip, tasks, boxVars,
                   inVars>>

\* reconnect_delayed task i wakes from its sleep
reconnect_delayed(i) ==
    /\ timers[i] = 0
    /\ timers' = Remove(timers, i)
    /\ IF running THEN Connect ELSE UNCHANGED <<conn, connectFlip>>
    /\ UNCHANGED <<now, ticks, rlVars, running, discFlip, tasks, boxVars,
                   inVars>>

\* stop(), the signal handler
Stop ==
    /\ running' = FALSE
    /\ conn' = "disconnected"
    /\ UNCHANGED <<now, ticks, rlVars, connectFlip, discFlip, timers, tasks,
                   boxVars, inVars>>

\* the steps of the clock in the RateLimiter specification: they reach both
\* sides of the minute window (60, 120) and of the day window (86341, 86401)
RLSteps == {60, 86341}

NextRL ==
    \/ \E d \in RLSteps : Tick(d, MaxTicks)
    \/ \E s \in Senders : AllowInboundCall(s)
    \/ AllowOutboundCall

InitRL == InitLimiter /\ InitBridge /\ DefaultFilters

\* The RateLimiter under any sequence of calls and a non-decreasing clock.
SpecRL == InitRL /\ [][NextRL]_vars

(***************************************************************************)
(* The outbox drain loop: producers drop files, session starts spawn       *)
(* watch_outbox tasks, the tasks scan.                                     *)
(***************************************************************************)
\* the steps of the clock: the sleep of the drain loop, and long enough for
\* the minute window to free
OutboxSteps == {2, 61}

InitOutbox ==
    /\ InitLimiter
    /\ InitBridge
    /\ DefaultFilters
    /\ INBOUND_LIMIT_PER_MIN = MaxLimit
    /\ OUTBOUND_LIMIT_PER_DAY = MaxLimit

NextOutbox ==
    \/ \E d \in OutboxSteps : Tick(d, MaxBridgeTicks)
    \/ \E f \in Files : \E c \in Contents(f) : Produce(f, c)
    \/ SessionStart
    \/ \E i \in 1..Len(tasks) : DrainStep(i)

SpecOutbox == InitOutbox /\ [][NextOutbox]_vars

(***************************************************************************)
(* The connection supervisor: the events of the protocol library arrive in *)
(* any order.                                                              *)
(***************************************************************************)
ConnSteps == {2, 5}

NextConn ==
    \/ \E d \in ConnSteps : Tick(d, MaxBridgeTicks)
    \/ SessionStart
    \/ Disconnected
    \/ \E i \in 1..Len(timers) : reconnect_delayed(i)
    \/ \E i \in 1..Len(tasks) : DrainStep(i)
    \/ Stop

InitConn ==
    /\ InitLimiter
    /\ InitBridge
    /\ DefaultFilters
    /\ INBOUND_LIMIT_PER_MIN = MaxLimit
    /\ OUTBOUND_LIMIT_PER_MIN = MaxLimit
    /\ OUTBOUND_LIMIT_PER_DAY = MaxLimit

SpecConn == InitConn /\ [][NextConn]_vars

(***************************************************************************)
(* The inbound pipeline: messages arrive, the executor runs the hook jobs. *)
(***************************************************************************)
\* the steps of the clock: within the same minute, and past it
InboundSteps == {1, 61}

InitInbound ==
    /\ InitLimiter
    /\ InitBridge
    /\ OUTBOUND_LIMIT_PER_MIN = MaxLimit
    /\ OUTBOUND_LIMIT_PER_DAY = MaxLimit
    /\ ALLOWED_SENDERS \in AllowLists
    /\ REQUIRE_PREFIX \in Prefixes
    /\ HOOK_URL \in HookUrls

NextInbound ==
    \/ \E d \in InboundSteps : Tick(d, MaxBridgeTicks)
    \/ \E msg \in Msgs : on_message(msg)
    \/ \E i \in 1..Len(executor) : \E outcome \in HookOutcomes :
          fire_hook(i, outcome)

SpecInbound == InitInbound /\ [][NextInbound]_vars

(***************************************************************************)
(* Both directions at once: messages arrive while the outbox is drained.   *)
(* In this specification no filesystem mutation throws (the count of the   *)
(* ones that may is used up from the start).                               *)
(***************************************************************************)
InitBothWays ==
    /\ InitLimiter
    /\ running = TRUE
    /\ conn = "connecting"
    /\ timers = <<>>
    /\ tasks = <<>>
    /\ connectFlip = FALSE
    /\ discFlip = FALSE
    /\ suffix = [f \in Files |-> "none"]
    /\ data = [f \in Files |-> NoData]
    /\ sends = <<>>
    /\ hist = [f \in Files |-> {}]
    /\ deferred = {}
    /\ faults = MaxFaults
    /\ inbox = <<>>
    /\ written = <<>>
    /\ executor = <<>>
    /\ posted = <<>>
    /\ received = 0
    /\ last = NoMessage
    /\ DefaultFilters
    /\ INBOUND_LIMIT_PER_MIN = MaxLimit
    /\ OUTBOUND_LIMIT_PER_MIN = MaxLimit
    /\ OUTBOUND_LIMIT_PER_DAY = MaxLimit

NextBridge ==
    \/ \E msg \in Msgs : on_message(msg)
    \/ \E f \in Files : \E c \in Contents(f) : Produce(f, c)
    \/ SessionStart
    \/ \E i \in 1..Len(tasks) : DrainStep(i)

SpecBridge == InitBothWays /\ [][NextBridge]_vars

(***************************************************************************)
(* Shutdown: the supervisor with files in the outbox.  A session_start     *)
(* handler that was waiting for the roster when stop() ran resumes         *)
(* afterwards and still starts a watch_outbox task.  No filesystem         *)
(* mutation throws.                                                        *)
(***************************************************************************)
\* on_session resumes after stop(): asyncio.ensure_future(self.watch_outbox())
LateSessionStart ==
    /\ ~running
    /\ Len(tasks) < MaxTasks
    /\ tasks' = Append(tasks, 0)
    /\ UNCHANGED <<now, ticks, rlVars, connVars, timers, boxVars, inVars>>

NextStop ==
    \/ NextConn
    \/ \E f \in Files : \E c \in Contents(f) : Produce(f, c)
    \/ LateSessionStart

SpecStop == InitBothWays /\ [][NextStop]_vars

(***************************************************************************)
(* The drain loop for ever.  The clock is kept relative: when d seconds    *)
(* pass, now stays and every recorded timestamp moves d seconds into the   *)
(* past, which leaves every difference now - t that the code computes as   *)
(* it would be with now + d.  A timestamp that has left its window is kept *)
(* just outside it: _trim_window treats all such timestamps alike.         *)
(***************************************************************************)
\* the window q after d seconds have passed
Aged(q, d, window_seconds) ==
    [i \in 1..Len(q) |-> Max(q[i] - d, now - window_seconds - 1)]

\* d seconds pass
Elapse(d) ==
    /\ events_minute' = [k \in Keys |-> Aged(events_minute[k], d, MinuteWindow)]
    /\ events_day' = Aged(events_day, d, DayWindow)
    /\ sends' = [i \in 1..Len(sends) |->
                   [sends[i] EXCEPT !.at = Max(@ - d, now - DayWindow - 1)]]
    /\ timers' = [i \in 1..Len(timers) |-> Max(timers[i] - d, 0)]
    /\ tasks' = [i \in 1..Len(tasks) |-> Max(tasks[i] - d, 0)]
    /\ UNCHANGED <<now, ticks, limitVars, ret, burst, connVars, suffix, data,
                   hist, deferred, faults, inVars>>

\* the time between two looks at the clock: more than a day
LiveSteps == {DayWindow + 1}

InitLive ==
    /\ InitLimiter
    /\ InitBridge
    /\ DefaultFilters
    /\ INBOUND_LIMIT_PER_MIN = MaxLimit

NextLive ==
    \/ \E d \in LiveSteps : Elapse(d)
    \/ \E f \in Files : \E c \in Contents(f) : Produce(f, c)
    \/ SessionStart
    \/ \E i \in 1..Len(tasks) : DrainStep(i)

\* Time does not stop: a sleeping task is woken by the clock.
SpecLive ==
    /\ InitLive
    /\ [][NextLive]_vars
    /\ WF_vars(\E d \in LiveSteps : Elapse(d))

(***************************************************************************)
(* Properties of the RateLimiter.                                          *)
(***************************************************************************)
\* a is b with some of its first elements removed
IsSuffix(a, b) == \E n \in 0..Len(b) : a = SubSeq(b, n + 1, Len(b))

IsSorted(q) == \A i \in 1..Len(q) : \A j \in i..Len(q) : q[i] <= q[j]

\* C1: starting from an empty window (or one whose timestamps have all
\* expired), the i-th call of allow_inbound(sender) within 60 seconds of the
\* first returns true exactly when i <= INBOUND_LIMIT_PER_MIN, and a denied
\* call adds no timestamp: after i calls the window holds
\* min(i, INBOUND_LIMIT_PER_MIN) entries.  The calls are those of a burst in
\* which nothing else writes the sender's deque.
C1_InboundFirstN ==
    ret.op = "in" =>
        LET b == burst[ret.key]
        IN  (b.calls > 0 /\ now - b.t0 <= MinuteWindow) =>
                /\ ret.ok = (b.calls <= INBOUND_LIMIT_PER_MIN)
                /\ Len(events_minute[ret.key])
                      = Min(b.calls, INBOUND_LIMIT_PER_MIN)

\* C1 witness: with a limit of at least one, call limit + 1 of a burst has
\* just been denied and the window holds limit entries.
C1_Witness ==
    /\ ret.op = "in" /\ ~ret.ok
    /\ INBOUND_LIMIT_PER_MIN >= 1
    /\ burst[ret.key].calls = INBOUND_LIMIT_PER_MIN + 1
    /\ now - burst[ret.key].t0 <= MinuteWindow
    /\ Len(events_minute[ret.key]) = INBOUND_LIMIT_PER_MIN

\* C2: after every call each per-sender inbound window holds at most
\* INBOUND_LIMIT_PER_MIN entries, the outbound minute window at most
\* OUTBOUND_LIMIT_PER_MIN, the daily window at most OUTBOUND_LIMIT_PER_DAY,
\* and every window is sorted ascending.
C2_WindowsWithinLimits ==
    /\ \A s \in Senders : Len(events_minute[s]) <= INBOUND_LIMIT_PER_MIN
    /\ Len(events_minute[OutKey("global")]) <= OUTBOUND_LIMIT_PER_MIN
    /\ Len(events_day) <= OUTBOUND_LIMIT_PER_DAY
    /\ \A k \in Keys : IsSorted(events_minute[k])
    /\ IsSorted(events_day)

\* C3: a call of allow_outbound that returns false appends to neither the
\* minute window nor the daily window (each is at most trimmed at its front);
\* a call that returns true appends the current timestamp to both; and the
\* daily window never holds more than OUTBOUND_LIMIT_PER_DAY entries.
C3_OutboundAllOrNothing ==
    [][ (ret'.op = "out" /\ ticks' = ticks) =>
          LET k == ret'.key
          IN  /\ ~ret'.ok =>
                    /\ IsSuffix(events_minute'[k], events_minute[k])
                    /\ IsSuffix(events_day', events_day)
              /\ ret'.ok =>
                    /\ events_minute'[k] # <<>> /\ events_day' # <<>>
                    /\ events_minute'[k][Len(events_minute'[k])] = now
                    /\ events_day'[Len(events_day')] = now
                    /\ IsSuffix(SubSeq(events_minute'[k], 1,
                                       Len(events_minute'[k]) - 1),
                                events_minute[k])
                    /\ IsSuffix(SubSeq(events_day', 1, Len(events_day') - 1),
                                events_day)
              /\ Len(events_day') <= OUTBOUND_LIMIT_PER_DAY ]_vars

\* C3 witness: a call has just been denied by the daily check alone: the daily
\* window is full and the minute window still has room.
C3_Witness ==
    /\ ret.op = "out" /\ ~ret.ok
    /\ OUTBOUND_LIMIT_PER_DAY >= 1
    /\ Len(events_day) = OUTBOUND_LIMIT_PER_DAY
    /\ Len(events_minute[OutKey("global")]) < OUTBOUND_LIMIT_PER_MIN

(***************************************************************************)
(* Properties of the outbox drain loop.                                    *)
(***************************************************************************)
\* the send_message calls made for file f
SendsOf(f) == {i \in 1..Len(sends) : sends[i].file = f}

\* b is the first min(Len(a), n) characters of a
IsPrefixOfLength(b, a, n) ==
    /\ Len(b) = Min(Len(a), n)
    /\ \A j \in 1..Len(b) : b[j] = a[j]

\* the send call of file f was made once, with the file's destination at
\* the gateway domain and the file's body cut to MAX_SMS_LEN
SentOnceAsWritten(f) ==
    /\ Cardinality(SendsOf(f)) = 1
    /\ \A i \in SendsOf(f) :
         /\ sends[i].mto = data[f].to \o "@cheogram.com"
         /\ IsPrefixOfLength(sends[i].mbody, data[f].body, MAX_SMS_LEN)

C5_ParseFailureTerminal ==
    \A f \in Files :
        "parse_error" \in hist[f] =>
            /\ suffix[f] = ".failed"
            /\ SendsOf(f) = {}
            /\ "read_after_failed" \notin hist[f]

\* C5, amended: a file that failed to parse is never sent; the scan that read
\* it renames it to .failed unless the rename throws; and a file once renamed
\* to .failed keeps that suffix and is never read again.
C5_ParseFailureTerminalUnlessRenameThrows ==
    \A f \in Files :
        /\ "parse_error" \in hist[f] =>
              /\ SendsOf(f) = {}
              /\ "rename_raised" \notin hist[f] => suffix[f] = ".failed"
        /\ "marked_failed" \in hist[f] =>
              /\ suffix[f] = ".failed"
              /\ "read_after_failed" \notin hist[f]

\* C5 witness: both kinds of malformed file are failed, and a scan has run
\* after they were.
C5_Witness ==
    /\ \A f \in Files : hist[f] = {"parse_error", "marked_failed"}
    /\ {data[f] : f \in Files} = {InvalidJson, NoBody}
    /\ now > 0 /\ \E i \in 1..Len(tasks) : tasks[i] = ScanInterval

\* C6: a scan in which the rate limiter denies a well-formed pending file
\* makes no send call for it and leaves it as it was, pending with the .json
\* suffix, so that the next scan lists and reads it again.
C6_DeferralLeavesFile ==
    [][ \A f \in deferred' :
          /\ suffix[f] = ".json" /\ suffix'[f] = ".json"
          /\ data'[f] = data[f]
          /\ {i \in 1..Len(sends') : sends'[i].file = f} = SendsOf(f)
          /\ \E i \in 1..Len(Listing(suffix')) : Listing(suffix')[i] = f
          /\ ~SkipsFile(suffix'[f]) ]_vars

\* C6 witness: a file that a scan deferred has been sent by a later scan.
C6_Witness ==
    \E f \in Files : {"deferred", "send_ok"} \subseteq hist[f] /\ suffix[f] = "none"

\* C7 (its last sentence, and its first): a file is marked failed only
\* because its parse or its send failed, and a file whose send succeeded is
\* not marked failed.
C7_FailedOnlyByParseOrSend ==
    \A f \in Files :
        /\ suffix[f] = ".failed" =>
              ("parse_error" \in hist[f] \/ "send_raised" \in hist[f])
        /\ "send_ok" \in hist[f] => suffix[f] # ".failed"

(***************************************************************************)
(* Properties of the connection supervisor.                                *)
(***************************************************************************)
\* C8: at most one outbox drain loop is alive at any time.
C8_SingleDrainLoop == Len(tasks) <= 1

\* C9: a disconnected event while running schedules a reconnect after
\* ReconnectDelay seconds, and while not running schedules nothing; a
\* reconnect timer that ends its sleep connects exactly when running is still
\* true; and connect is never called once running is false.
C9_ReconnectDiscipline ==
    [][ /\ (discFlip' # discFlip /\ running) =>
              timers' = Append(timers, ReconnectDelay)
        /\ (discFlip' # discFlip /\ ~running) =>
              (timers' = timers /\ connectFlip' = connectFlip)
        /\ Len(timers') < Len(timers) =>
              /\ \E i \in 1..Len(timers) :
                    timers[i] = 0 /\ timers' = Remove(timers, i)
              /\ (connectFlip' # connectFlip) <=> running
        /\ connectFlip' # connectFlip => (running /\ running') ]_vars

\* C9 witness: a reconnect timer has slept its delay and connected.
C9_Witness ==
    /\ connectFlip /\ discFlip /\ running
    /\ conn = "connecting" /\ timers = <<>>
    /\ now >= ReconnectDelay

\* C10: connect is only ever called while the session is disconnected.
C10_SingleConnection ==
    [][ connectFlip' # connectFlip => conn = "disconnected" ]_vars

(***************************************************************************)
(* Properties of the inbound pipeline.                                     *)
(***************************************************************************)
\* the persisted messages of phone with timestamp ts
WrittenAt(phone, ts) ==
    {i \in 1..Len(written) :
        written[i].rec.from = phone /\ written[i].rec.timestamp = ts}

\* the entries of the window q that carry timestamp ts
EntriesAt(q, ts) == {j \in 1..Len(q) : q[j] = ts}

\* the message passes every filter of the pipeline
Qualifies(msg) ==
    /\ msg.body # <<>>
    /\ Join(BareJid(msg.from)) \notin {"jabber.fr", "cheogram.com"}
    /\ ALLOWED_SENDERS # {} => Phone(msg.from) \in ALLOWED_SENDERS
    /\ REQUIRE_PREFIX # <<>> => StartsWith(msg.body, REQUIRE_PREFIX)

\* C11: a message whose sender is not in a non-empty allow-list writes no
\* inbox file and dispatches no webhook; every inbox file and every hook job
\* comes from a persisted message, and every persisted message had a
\* non-empty body, was not from the welcome or admin origin, had an allowed
\* sender, carried the required prefix, and was admitted by the inbound rate
\* limiter (its timestamp entered its sender's window).
C11_OnlyQualifiedPersisted ==
    /\ [](/\ \A i \in 1..Len(written) :
              /\ Qualifies(written[i].msg)
              /\ written[i].rec.from = Phone(written[i].msg.from)
              /\ now - written[i].rec.timestamp <= MinuteWindow =>
                    Cardinality(EntriesAt(events_minute[written[i].rec.from],
                                          written[i].rec.timestamp))
                      >= Cardinality(WrittenAt(written[i].rec.from,
                                               written[i].rec.timestamp))
          /\ \A name \in DOMAIN inbox :
              \E i \in 1..Len(written) :
                  written[i].name = name /\ written[i].rec = inbox[name]
          /\ \A j \in 1..Len(executor) : executor[j] \in 1..Len(written)
          /\ \A j \in 1..Len(posted) : posted[j].job \in 1..Len(written))
    /\ [][ (received' # received /\ last' = "untrusted") =>
              /\ ALLOWED_SENDERS # {}
              /\ UNCHANGED <<inbox, written, executor, posted>> ]_vars
    /\ [][ (received' # received /\ written' # written) =>
              /\ ret'.op = "in" /\ ret'.ok
              /\ ret'.key = written'[Len(written')].rec.from ]_vars

\* C11 witness: under an allow-list and a required prefix, one message has
\* been persisted and the next one, from a sender not on the list, has been
\* dropped.
C11_Witness ==
    /\ ALLOWED_SENDERS # {} /\ REQUIRE_PREFIX # <<>>
    /\ last = "untrusted" /\ received = 2
    /\ Len(written) = 1 /\ Cardinality(DOMAIN inbox) = 1

\* C12: the body of every persisted inbox record is the first
\* min(len, MAX_SMS_LEN) characters of the received body, and the body of
\* every send call is the first min(len, MAX_SMS_LEN) characters of the body
\* of its outbox file; neither is longer than MAX_SMS_LEN.
C12_BodiesTruncated ==
    /\ \A i \in 1..Len(written) :
          /\ Len(written[i].rec.body) <= MAX_SMS_LEN
          /\ IsPrefixOfLength(written[i].rec.body, written[i].msg.body,
                              MAX_SMS_LEN)
    /\ \A name \in DOMAIN inbox : Len(inbox[name].body) <= MAX_SMS_LEN
    /\ \A i \in 1..Len(sends) :
          /\ Len(sends[i].mbody) <= MAX_SMS_LEN
          /\ IsPrefixOfLength(sends[i].mbody, data[sends[i].file].body,
                              MAX_SMS_LEN)

\* C12 witness: a received body and an outbox body, both longer than
\* MAX_SMS_LEN, have been persisted and sent, and so has a received body
\* shorter than MAX_SMS_LEN.
C12_Witness ==
    /\ \E i \in 1..Len(written) : Len(written[i].msg.body) > MAX_SMS_LEN
    /\ \E i \in 1..Len(written) : Len(written[i].msg.body) < MAX_SMS_LEN
    /\ \E i \in 1..Len(sends) :
          Len(data[sends[i].file].body) > MAX_SMS_LEN /\ ~sends[i].raised

\* C13: each persisted message has its own inbox file, and every inbox file
\* still holds the record it was created with: there are as many files as
\* persisted messages, and the file of each message holds its record.
C13_OneFilePerMessage ==
    /\ Cardinality(DOMAIN inbox) = Len(written)
    /\ \A i \in 1..Len(written) :
          /\ written[i].name \in DOMAIN inbox
          /\ inbox[written[i].name] = written[i].rec

\* the hook jobs dispatched so far: the ones that ran, then the ones waiting
Dispatched == [j \in 1..Len(posted) |-> posted[j].job] \o executor

\* the outcomes of on_message in which the message is dropped
Drops == {"empty", "welcome", "admin", "untrusted", "rate", "prefix",
          "write_raised"}

\* C15: a hook job is dispatched only in the step that persists its message,
\* after the inbox file is written, and at most once per message; a dropped
\* message dispatches none; the run of a hook job, whatever its outcome,
\* changes nothing but the executor's queue and the record of POSTs; and a
\* message can be processed while hook jobs are waiting.
C15_HookAfterPersistOnce ==
    /\ [](/\ \A j \in 1..Len(Dispatched) :
              /\ Dispatched[j] \in 1..Len(written)
              /\ \A k \in 1..Len(Dispatched) :
                    Dispatched[k] = Dispatched[j] => k = j
          /\ HOOK_URL = "" => posted = <<>>
          /\ received < MaxMsgs => ENABLED (\E msg \in Msgs : on_message(msg)))
    /\ [][ received' # received =>
              IF last' = "persisted"
              THEN /\ written' # written
                   /\ written'[Len(written')].name \in DOMAIN inbox'
                   /\ executor' = Append(executor, Len(written'))
                   /\ posted' = posted
              ELSE /\ last' \in Drops
                   /\ UNCHANGED <<inbox, written, executor, posted>> ]_vars
    /\ [][ Len(executor') < Len(executor) =>
              /\ \E i \in 1..Len(executor) :
                    /\ executor' = Remove(executor, i)
                    /\ \/ HOOK_URL = "" /\ posted' = posted
                       \/ /\ HOOK_URL # ""
                          /\ \E outcome \in HookOutcomes :
                                posted' = Append(posted,
                                    [job |-> executor[i], outcome |-> outcome])
              /\ UNCHANGED <<now, ticks, rlVars, connVars, timers, tasks,
                             boxVars, filterVars, inbox, written, received,
                             last>> ]_vars

\* C15 witness: two messages have been persisted; the hook of the second has
\* timed out while the hook of the first is still waiting.
C15_Witness ==
    /\ HOOK_URL # ""
    /\ Len(written) = 2
    /\ posted = <<[job |-> 2, outcome |-> "timeout"]>>
    /\ executor = <<1>>

(***************************************************************************)
(* Properties of shutdown.                                                 *)
(***************************************************************************)
\* C16: running only ever changes from true to false.  From a state in
\* which it is false: no scan runs (no allow_outbound call, no send call, no
\* file of the outbox deleted or renamed), connect is not called, no reconnect
\* timer is scheduled, and a drain loop or a reconnect timer that wakes from
\* its sleep ends: it neither scans nor sleeps again.
C16_StopIsTerminal ==
    [][ /\ running' # running => (running /\ ~running')
        /\ ~running =>
              /\ sends' = sends /\ hist' = hist /\ faults' = faults
              /\ events_minute' = events_minute /\ events_day' = events_day
              /\ \A f \in Files : suffix[f] # "none" => suffix'[f] = suffix[f]
              /\ connectFlip' = connectFlip
              /\ ticks' = ticks =>
                    /\ \/ timers' = timers
                       \/ \E i \in 1..Len(timers) :
                             timers[i] = 0 /\ timers' = Remove(timers, i)
                    /\ \/ tasks' = tasks
                       \/ tasks' = Append(tasks, 0)
                       \/ \E i \in 1..Len(tasks) :
                             tasks[i] = 0 /\ tasks' = Remove(tasks, i)
              /\ ticks' # ticks =>
                    /\ Len(timers') = Len(timers) /\ Len(tasks') = Len(tasks)
                    /\ \A i \in 1..Len(timers) : timers'[i] <= timers[i]
                    /\ \A i \in 1..Len(tasks) : tasks'[i] <= tasks[i] ]_vars

\* C16 witness: the bridge has stopped with a file still pending in the
\* outbox after an earlier scan had sent one; every drain loop and every
\* reconnect timer has ended.
C16_Witness ==
    /\ ~running /\ tasks = <<>> /\ timers = <<>>
    /\ discFlip /\ now >= ReconnectDelay
    /\ \E f \in Files : "send_ok" \in hist[f]
    /\ \E f \in Files : suffix[f] = ".json" /\ hist[f] = {} /\ Parses(data[f])

(***************************************************************************)
(* More properties of the outbox drain loop.                               *)
(***************************************************************************)
\* C14: a scan in which the delete or the rename of a file throws leaves
\* that file pending, with its .json suffix, for the next scan, and the
\* drain loop goes on.
C14_ThrowingMutationLeavesPending ==
    [][ \A f \in Files :
          ({"unlink_raised", "rename_raised"} \cap (hist'[f] \ hist[f])) # {}
          => /\ suffix'[f] = ".json"
             /\ Len(tasks') = Len(tasks) ]_vars

\* a scan has just deferred file f: its task has gone to sleep and the
\* clock has not moved since
JustDeferred(f) ==
    /\ f \in deferred
    /\ \E i \in 1..Len(tasks) : tasks[i] = ScanInterval

SendsWithin(t, window_seconds) ==
    {j \in 1..Len(sends) :
        sends[j].at >= t /\ sends[j].at - t <= window_seconds}

\* C18: for any number of scans and of drain tasks, the send calls made
\* within any span of 60 seconds are at most OUTBOUND_LIMIT_PER_MIN and
\* those within any span of 86400 seconds at most OUTBOUND_LIMIT_PER_DAY;
\* and every send call follows a granted allow_outbound call of its own: the
\* send calls of a second are no more than the timestamps the granted calls
\* of that second left in the daily window.
C18_SendsWithinLimits ==
    \A i \in 1..Len(sends) :
        /\ Cardinality(SendsWithin(sends[i].at, MinuteWindow))
              <= OUTBOUND_LIMIT_PER_MIN
        /\ Cardinality(SendsWithin(sends[i].at, DayWindow))
              <= OUTBOUND_LIMIT_PER_DAY
        /\ now - sends[i].at <= DayWindow =>
              Cardinality({j \in 1..Len(sends) : sends[j].at = sends[i].at})
                <= Cardinality(EntriesAt(events_day, sends[i].at))

\* C18 witness: with a limit of one send a minute, two drain tasks alive,
\* one file has been sent, the other deferred, and sent more than a minute
\* later.
C18_Witness ==
    /\ OUTBOUND_LIMIT_PER_MIN = 1 /\ Len(tasks) >= 2
    /\ Len(sends) = 2 /\ sends[2].at - sends[1].at > MinuteWindow
    /\ \E f \in Files : "deferred" \in hist[f]

\* C19: no inbound message, whatever its sender address, changes the
\* contents of an outbound window: a step of on_message leaves the outbound
\* minute window of "global" and the daily window as they were.
C19_InboundLeavesOutboundWindows ==
    [][received' # received =>
          /\ events_minute'[OutKey("global")] = events_minute[OutKey("global")]
          /\ events_day' = events_day]_vars

\* the window q with some entries trimmed from the front and t appended
OneMore(q, t) ==
    {Append(SubSeq(q, n + 1, Len(q)), t) : n \in 0..Len(q)}

\* C20: a message dropped for an empty body, for the server-welcome or the
\* gateway-admin origin, or for a sender that is not on the allow-list,
\* leaves every rate-limiter window, the inbox and the webhook untouched; a
\* message dropped for a missing required prefix was admitted by
\* allow_inbound and has added exactly one timestamp, the current second, to
\* its sender's window and to no other, and leaves the inbox and the webhook
\* untouched.
C20_WhichDropsConsumeQuota ==
    [][received' # received =>
          /\ last' \in {"empty", "welcome", "admin", "untrusted"} =>
                /\ events_minute' = events_minute
                /\ events_day' = events_day
                /\ inbox' = inbox /\ written' = written
                /\ executor' = executor /\ posted' = posted
          /\ last' = "prefix" =>
                /\ ret'.op = "in" /\ ret'.ok
                /\ events_minute'[ret'.key]
                      \in OneMore(events_minute[ret'.key], now)
                /\ \A k \in Keys \ {ret'.key} :
                      events_minute'[k] = events_minute[k]
                /\ events_day' = events_day
                /\ inbox' = inbox /\ written' = written
                /\ executor' = executor /\ posted' = posted]_vars

\* C20 witness: with a required prefix, the second message of a sender
\* lacks the prefix and was dropped for it after the first one was dropped
\* for the same reason: both are in the sender's window, nothing is in the
\* inbox and no hook job was made.
C20_Witness ==
    /\ REQUIRE_PREFIX # <<>> /\ INBOUND_LIMIT_PER_MIN >= 2
    /\ received = 2 /\ last = "prefix" /\ ret.ok
    /\ events_minute["1555"] = <<now, now>>
    /\ inbox = <<>> /\ written = <<>> /\ executor = <<>> /\ posted = <<>>

====
